---- MODULE Spec2Model ----
(***************************************************************************)
(* cercami: an in-memory inverted index over a corpus of short documents.  *)
(* The module models src/src/lib.rs (Config, run, Index) and               *)
(* src/src/main.rs (main).                                                 *)
(*                                                                         *)
(* A text is a sequence of pieces: the pieces obtained by cutting the      *)
(* string at every whitespace character, so that leading, trailing and     *)
(* repeated whitespace give empty pieces "".  A postings list is a         *)
(* sequence of document ids (Vec<u32>), the index a function from the      *)
(* terms that are keys of the HashMap to their postings lists.             *)
(*                                                                         *)
(* Three specifications share the variables:                               *)
(*   Spec          one run of the program (main, Config::new, run);        *)
(*   SpecApi       a client of the library calling add and search on an    *)
(*                 index returned by Index::new;                           *)
(*   SpecIntersect intersect_ordered_vecs applied to sorted vectors.       *)
(***************************************************************************)
EXTENDS Integers, Sequences, FiniteSets, TLC

VARIABLES
    pc,        \* position of the program: "main", "run", "search", "print", "exit"
    args,      \* env::args(): the command line, program name first
    file,      \* what the file system holds at the corpus path
    config,    \* the Config built from args
    index,     \* Index.index: HashMap<String, Vec<u32>>
    last,      \* the last library call and what it returned
    out,       \* lines printed on stdout
    err,       \* lines printed on stderr
    exitCode,  \* process exit status, -1 while running
    xs         \* the vectors intersect_ordered_vecs is applied to

vars == <<pc, args, file, config, index, last, out, err, exitCode, xs>>

----------------------------------------------------------------------------
(* Bounds *)

MaxId == 1          \* add is called with ids 0..MaxId
ApiDocs == 2        \* documents of the corpus the client's index is built from
MaxDocs == 3        \* documents of the corpus file of a program run
MaxElem == 2        \* intersect_ordered_vecs is applied to vectors over 0..MaxElem

Ids == 0..MaxId

\* the texts and the queries of the library client
ApiTexts ==
    { <<>>, <<"">>, <<"The", "of">>, <<"fox">>, <<"Foxes">>, <<"dog">>,
      <<"fox", "", "fox">>, <<"dog", "fox">>, <<"The", "dog", "Foxes">>,
      <<"dog", "fox", "dog">> }

\* the texts of the corpus files of a program run
DocTexts ==
    { <<"The", "quick", "brown", "fox">>,
      <<"quick", "dog", "runs">>,
      <<"brown", "fox", "jumps">>,
      <<"Foxes", "", "of", "the", "dog">> }

\* the queries given on the command line
QuerySet ==
    { <<"quick", "fox">>, <<"fox", "quick">>, <<"elephant">>, <<"brown">>,
      <<"the", "of">>, <<"">>, <<"Quick">>, <<"foxes", "dog">>,
      <<"quick", "dog", "dog">>, <<"dog", "dog", "quick">>,
      <<"quick", "fox", "brown">>, <<"brown", "fox", "quick">> }

RECURSIVE SeqsUpTo(_, _)
SeqsUpTo(S, n) ==
    IF n = 0 THEN { <<>> }
    ELSE LET shorter == SeqsUpTo(S, n - 1)
         IN  shorter \cup { Append(s, x) : s \in { t \in shorter : Len(t) = n - 1 }, x \in S }

ApiCorpora == SeqsUpTo(ApiTexts, ApiDocs) \ { <<>> }
Corpora == SeqsUpTo(DocTexts, MaxDocs) \ { <<>> }

RECURSIVE AscendingOver(_)
\* the strictly ascending sequences over 0..n
AscendingOver(n) ==
    IF n < 0 THEN { <<>> }
    ELSE LET lower == AscendingOver(n - 1)
         IN  lower \cup { Append(s, n) : s \in lower }

SortedVecs == AscendingOver(MaxElem)

----------------------------------------------------------------------------
(* Normalisation: Index::tokenize *)

STOP_WORDS ==
    { "i", "me", "my", "myself", "we", "our", "ours", "ourselves", "you",
      "your", "yours", "yourself", "yourselves", "he", "him", "his",
      "himself", "she", "her", "hers", "herself", "it", "its", "itself",
      "they", "them", "their", "theirs", "themselves", "what", "which",
      "who", "whom", "this", "that", "these", "those", "am", "is", "are",
      "was", "were", "be", "been", "being", "have", "has", "had", "having",
      "do", "does", "did", "doing", "a", "an", "the", "and", "but", "if",
      "or", "because", "as", "until", "while", "of", "at", "by", "for",
      "with", "about", "against", "between", "into", "through", "during",
      "before", "after", "above", "below", "to", "from", "up", "down", "in",
      "out", "on", "off", "over", "under", "again", "further", "then",
      "once", "here", "there", "when", "where", "why", "how", "all", "any",
      "both", "each", "few", "more", "most", "other", "some", "such", "no",
      "nor", "not", "only", "own", "same", "so", "than", "too", "very", "s",
      "t", "can", "will", "just", "don", "should", "now" }

\* str::to_lowercase on one piece
ToLowercase(w) ==
    CASE w = "The" -> "the"
      [] w = "Quick" -> "quick"
      [] w = "Foxes" -> "foxes"
      [] OTHER -> w

\* Stemmer::stem of the English Snowball stemmer, on the words used here
Stem(w) ==
    CASE w = "foxes" -> "fox"
      [] w = "runs" -> "run"
      [] w = "jumps" -> "jump"
      [] w = "elephant" -> "eleph"
      [] OTHER -> w

RECURSIVE SplitWhitespace(_, _)
\* str::split_whitespace: the non-empty pieces from position k on, lowercased before
SplitWhitespace(text, k) ==
    IF k > Len(text) THEN <<>>
    ELSE IF text[k] = "" THEN SplitWhitespace(text, k + 1)
    ELSE <<ToLowercase(text[k])>> \o SplitWhitespace(text, k + 1)

RECURSIVE FilterMap(_, _)
\* the filter_map closure of tokenize over the words from position k on
FilterMap(words, k) ==
    IF k > Len(words) THEN <<>>
    ELSE IF words[k] \in STOP_WORDS THEN FilterMap(words, k + 1)
    ELSE <<Stem(words[k])>> \o FilterMap(words, k + 1)

tokenize(text) == FilterMap(SplitWhitespace(text, 1), 1)

----------------------------------------------------------------------------
(* Index::intersect_ordered_vecs *)

RECURSIVE SliceCmp(_, _, _)
\* a.cmp(b) on slices: lexicographic, from position k on
SliceCmp(a, b, k) ==
    IF k > Len(a) \/ k > Len(b)
    THEN IF Len(a) < Len(b) THEN "Less"
         ELSE IF Len(a) > Len(b) THEN "Greater"
         ELSE "Equal"
    ELSE IF a[k] < b[k] THEN "Less"
    ELSE IF a[k] > b[k] THEN "Greater"
    ELSE SliceCmp(a, b, k + 1)

RECURSIVE IntersectLoop(_, _, _, _, _)
\* the while loop, cursors i and j counted from 1
IntersectLoop(a, b, i, j, results) ==
    IF i <= Len(a) /\ j <= Len(b)
    THEN CASE SliceCmp(a, b, 1) = "Greater" -> IntersectLoop(a, b, i, j + 1, results)
           [] SliceCmp(a, b, 1) = "Less" -> IntersectLoop(a, b, i + 1, j, results)
           [] SliceCmp(a, b, 1) = "Equal" ->
                  IntersectLoop(a, b, i + 1, j + 1, Append(results, a[i]))
    ELSE results

\* a variant that pushes a[i] when a is the smaller slice
intersect_keeps_less(a, b) ==
    IF SliceCmp(a, b, 1) = "Less" /\ Len(b) > 0 THEN a
    ELSE IntersectLoop(a, b, 1, 1, <<>>)

intersect_ordered_vecs(a, b) == IntersectLoop(a, b, 1, 1, <<>>)

----------------------------------------------------------------------------
(* Index::add *)

Contains(v, x) == \E n \in 1..Len(v) : v[n] = x

\* HashMap::insert
Insert(idx, key, value) ==
    [t \in DOMAIN idx \cup {key} |-> IF t = key THEN value ELSE idx[t]]

\* a variant of the loop body without the contains test
add_token_always_push(idx, token, id) ==
    IF token \in DOMAIN idx
    THEN Insert(idx, token, Append(idx[token], id))
    ELSE Insert(idx, token, <<id>>)

\* the body of the for loop of add, for one token
AddToken(idx, token, id) ==
    IF token \in DOMAIN idx
    THEN IF Contains(idx[token], id)
         THEN Insert(idx, token, idx[token])
         ELSE Insert(idx, token, Append(idx[token], id))
    ELSE Insert(idx, token, <<id>>)

RECURSIVE AddLoop(_, _, _, _)
AddLoop(idx, tokens, k, id) ==
    IF k > Len(tokens) THEN idx
    ELSE AddLoop(AddToken(idx, tokens[k], id), tokens, k + 1, id)

add(idx, doc) == AddLoop(idx, tokenize(doc.text), 1, doc.id)

----------------------------------------------------------------------------
(* Index::search *)

\* a variant of the loop that always intersects, also on the first term
RECURSIVE search_loop_no_seed(_, _, _, _)
search_loop_no_seed(idx, tokens, k, results) ==
    IF k > Len(tokens) THEN results
    ELSE IF tokens[k] \in DOMAIN idx
    THEN search_loop_no_seed(idx, tokens, k + 1,
                             intersect_ordered_vecs(results, idx[tokens[k]]))
    ELSE <<>>

RECURSIVE SearchLoop(_, _, _, _)
\* the for loop of search from token k on, with accumulator results
SearchLoop(idx, tokens, k, results) ==
    IF k > Len(tokens) THEN results
    ELSE IF tokens[k] \in DOMAIN idx
    THEN SearchLoop(idx, tokens, k + 1,
                    IF Len(results) = 0
                    THEN idx[tokens[k]]
                    ELSE intersect_ordered_vecs(results, idx[tokens[k]]))
    ELSE <<>>

RECURSIVE AllIds(_, _)
AllIds(idx, n) ==
    IF n < 0 THEN <<>>
    ELSE AllIds(idx, n - 1)
         \o (IF \E t \in DOMAIN idx : Contains(idx[t], n) THEN <<n>> ELSE <<>>)

\* a variant that answers a query without terms with every indexed document
search_matches_all(idx, query) ==
    IF tokenize(query) = <<>> THEN AllIds(idx, MaxId + MaxDocs)
    ELSE SearchLoop(idx, tokenize(query), 1, <<>>)

search(idx, query) == SearchLoop(idx, tokenize(query), 1, <<>>)

----------------------------------------------------------------------------
(* Index::new *)

EmptyIndex == [t \in {} |-> <<>>]

RECURSIVE BuildLoop(_, _, _)
\* the for loop over docs.doc.iter().enumerate(), from document k on
BuildLoop(idx, docs, k) ==
    IF k > Len(docs) THEN idx
    ELSE BuildLoop(add(idx, [id |-> k - 1, text |-> docs[k]]), docs, k + 1)

NoFile == [kind |-> "absent"]
Malformed == [kind |-> "malformed"]
CorpusFile(docs) == [kind |-> "docs", docs |-> docs]

\* a variant that treats a corpus that fails to parse as an empty corpus
index_new_lenient(f) ==
    IF f.kind = "absent"
    THEN [ok |-> FALSE, error |-> "No such file or directory"]
    ELSE IF f.kind = "malformed"
    THEN [ok |-> TRUE, index |-> EmptyIndex]
    ELSE [ok |-> TRUE, index |-> BuildLoop(EmptyIndex, f.docs, 1)]

IndexNew(f) ==
    IF f.kind = "absent"
    THEN [ok |-> FALSE, error |-> "No such file or directory"]
    ELSE IF f.kind = "malformed"
    THEN [ok |-> FALSE, error |-> "corpus does not parse"]
    ELSE [ok |-> TRUE, index |-> BuildLoop(EmptyIndex, f.docs, 1)]

----------------------------------------------------------------------------
(* Config::new *)

ConfigNew(argv) ==
    IF Len(argv) < 2 THEN [ok |-> FALSE, error |-> "Didn't get a db path"]
    ELSE IF Len(argv) < 3 THEN [ok |-> FALSE, error |-> "Didn't get a query"]
    ELSE [ok |-> TRUE, query |-> argv[3], db_path |-> argv[2]]

----------------------------------------------------------------------------
(* Spec: one run of the program *)

NoCall == [op |-> "none"]
NoConfig == [ok |-> FALSE, error |-> ""]

CommandLines ==
    { <<"cercami">>, <<"cercami", "db.xml">> }
    \cup { <<"cercami", "db.xml", q>> : q \in QuerySet }
    \cup { <<"cercami", "db.xml", q, "extra">> : q \in { <<"brown">> } }

Init ==
    /\ pc = "main"
    /\ args \in CommandLines
    /\ file \in { NoFile, Malformed } \cup { CorpusFile(c) : c \in Corpora }
    /\ config = NoConfig
    /\ index = EmptyIndex
    /\ last = NoCall
    /\ out = <<>>
    /\ err = <<>>
    /\ exitCode = -1
    /\ xs = <<>>

\* main, lines 9-12: Config::new, or the diagnostic and exit(1)
MainConfig ==
    /\ pc = "main"
    /\ config' = ConfigNew(args)
    /\ IF config'.ok
       THEN /\ pc' = "run"
            /\ UNCHANGED <<err, exitCode>>
       ELSE /\ err' = Append(err, <<"Problem parsing arguments", config'.error>>)
            /\ exitCode' = 1
            /\ pc' = "exit"
    /\ UNCHANGED <<args, file, index, last, out, xs>>

\* run, line 148, and main, lines 14-17, when Index::new fails
RunIndex ==
    /\ pc = "run"
    /\ LET r == IndexNew(file)
       IN  IF r.ok
           THEN /\ index' = r.index
                /\ pc' = "search"
                /\ UNCHANGED <<err, exitCode>>
           ELSE /\ err' = Append(err, <<"Application error", r.error>>)
                /\ exitCode' = 1
                /\ pc' = "exit"
                /\ UNCHANGED index
    /\ UNCHANGED <<args, file, config, last, out, xs>>

\* run, line 152
RunSearch ==
    /\ pc = "search"
    /\ last' = [op |-> "search", query |-> config.query,
                results |-> search(index, config.query)]
    /\ pc' = "print"
    /\ UNCHANGED <<args, file, config, index, out, err, exitCode, xs>>

\* run, lines 155-160, and the return of main; the two timing lines carry
\* measured durations and are left out
RunPrint ==
    /\ pc = "print"
    /\ out' = out \o << <<"results", last.results>>,
                        <<"Number of results", Len(last.results)>>,
                        <<"Total number of indexed tokens", Cardinality(DOMAIN index)>> >>
    /\ exitCode' = 0
    /\ pc' = "exit"
    /\ UNCHANGED <<args, file, config, index, last, err, xs>>

Next == MainConfig \/ RunIndex \/ RunSearch \/ RunPrint

Spec == Init /\ [][Next]_vars

----------------------------------------------------------------------------
(* SpecApi: a client of the library, calling add and search on an index    *)
(* that Index::new returned                                                *)

InitApi ==
    /\ pc = "api"
    /\ args = <<>>
    /\ file = NoFile
    /\ config = NoConfig
    /\ \E c \in ApiCorpora : index = IndexNew(CorpusFile(c)).index
    /\ last = [op |-> "new"]
    /\ out = <<>>
    /\ err = <<>>
    /\ exitCode = -1
    /\ xs = <<>>

\* index.add(&doc), with any id and any text
ApiAdd ==
    /\ pc = "api"
    /\ \E id \in Ids, text \in ApiTexts :
          LET doc == [id |-> id, text |-> text]
          IN  /\ index' = add(index, doc)
              /\ last' = [op |-> "add", doc |-> doc,
                          again |-> IF last.op = "add" THEN last.doc = doc ELSE FALSE]
    /\ UNCHANGED <<pc, args, file, config, out, err, exitCode, xs>>

\* index.search(query)
ApiSearch ==
    /\ pc = "api"
    /\ \E query \in ApiTexts :
          last' = [op |-> "search", query |-> query, results |-> search(index, query)]
    /\ UNCHANGED <<pc, args, file, config, index, out, err, exitCode, xs>>

NextApi == ApiAdd \/ ApiSearch

SpecApi == InitApi /\ [][NextApi]_vars

----------------------------------------------------------------------------
(* SpecIntersect: intersect_ordered_vecs on strictly ascending vectors     *)

InitIntersect ==
    /\ pc = "pure"
    /\ args = <<>>
    /\ file = NoFile
    /\ config = NoConfig
    /\ index = EmptyIndex
    /\ last = NoCall
    /\ out = <<>>
    /\ err = <<>>
    /\ exitCode = -1
    /\ xs \in SortedVecs \X SortedVecs \X SortedVecs

ApplyIntersect ==
    /\ pc = "pure"
    /\ last.op = "none"
    /\ LET X == xs[1]
           Y == xs[2]
           Z == xs[3]
       IN  last' = [op |-> "intersect",
                    xy |-> intersect_ordered_vecs(X, Y),
                    yx |-> intersect_ordered_vecs(Y, X),
                    xy_z |-> intersect_ordered_vecs(intersect_ordered_vecs(X, Y), Z),
                    x_yz |-> intersect_ordered_vecs(X, intersect_ordered_vecs(Y, Z)),
                    xx |-> intersect_ordered_vecs(X, X),
                    xe |-> intersect_ordered_vecs(X, <<>>)]
    /\ UNCHANGED <<pc, args, file, config, index, out, err, exitCode, xs>>

NextIntersect == ApplyIntersect

SpecIntersect == InitIntersect /\ [][NextIntersect]_vars

----------------------------------------------------------------------------
(* Properties *)

Range(s) == { s[n] : n \in 1..Len(s) }

StrictlyAscending(v) == \A n \in 1..(Len(v) - 1) : v[n] < v[n + 1]

\* the elements of a that occur in b, in the order of a
Common(a, b) == SelectSeq(a, LAMBDA x : Contains(b, x))

RECURSIVE MatchingFrom(_, _, _)
\* the ascending ids k-1, k, ... of the documents whose terms include every query term
MatchingFrom(docs, terms, k) ==
    IF k > Len(docs) THEN <<>>
    ELSE (IF Range(terms) \subseteq Range(tokenize(docs[k])) THEN <<k - 1>> ELSE <<>>)
         \o MatchingFrom(docs, terms, k + 1)

Searched == last.op = "search"

\* C1: on an index built from a corpus with ids 0..n-1, search with a query of
\* at least one term returns exactly the ascending ids of the documents whose
\* normalized text contains every normalized query term.
SearchIsStrictAnd ==
    (pc \in {"print", "exit"} /\ Searched /\ Len(tokenize(last.query)) >= 1)
        => last.results = MatchingFrom(file.docs, tokenize(last.query), 1)

\* C2: after any sequence of add calls every postings list keyed in the index
\* is strictly ascending.
PostingsAscending ==
    \A t \in DOMAIN index : StrictlyAscending(index[t])

\* C3: add called a second time with the same id and the same text leaves the
\* term-to-postings mapping as it was after the first call.
AddIdempotent ==
    [][(last'.op = "add" /\ last'.again) => index' = index]_vars

AddIdempotentWitness ==
    /\ last.op = "add"
    /\ last.again
    /\ LET tokens == tokenize(last.doc.text)
       IN  /\ Len(tokens) = 2
           /\ tokens[1] = tokens[2]
           /\ Len(index[tokens[1]]) >= 2

\* the accumulator of search after its first n tokens, all of them indexed
Accumulator(idx, tokens, n) == SearchLoop(idx, SubSeq(tokens, 1, n), 1, <<>>)

\* C4: when every query term is indexed and the accumulator is empty after
\* intersecting with some term, the result of search is empty.
EmptyAccumulatorStaysEmpty ==
    (Searched /\ Range(tokenize(last.query)) \subseteq DOMAIN index)
        => \A n \in 2..Len(tokenize(last.query)) :
              Accumulator(index, tokenize(last.query), n) = <<>> => last.results = <<>>

\* C5: intersect_ordered_vecs is commutative and associative on strictly
\* ascending vectors, intersect(X, X) = X and intersect(X, empty) = empty.
IntersectAlgebra ==
    last.op = "intersect"
        => /\ last.xy = last.yx
           /\ last.xy_z = last.x_yz
           /\ last.xx = xs[1]
           /\ last.xe = <<>>

IntersectAlgebraWitness ==
    /\ last.op = "intersect"
    /\ Len(xs[1]) >= 2
    /\ xs[2] = xs[1]
    /\ xs[3] = xs[1]
    /\ last.xy_z = xs[1]

\* C6: a query that normalizes to no term makes search return the empty
\* sequence.
NoTermsNoResults ==
    (Searched /\ tokenize(last.query) = <<>>) => last.results = <<>>

NoTermsNoResultsWitness ==
    /\ Searched
    /\ last.query = <<"The", "of">>
    /\ tokenize(last.query) = <<>>
    /\ DOMAIN index # {}

\* C7: a query that normalizes to exactly one term t returns the postings list
\* stored for t, or the empty sequence when t is not a key of the index.
SingleTermIsLookup ==
    (Searched /\ Len(tokenize(last.query)) = 1)
        => LET t == tokenize(last.query)[1]
           IN  last.results = IF t \in DOMAIN index THEN index[t] ELSE <<>>

SingleTermIsLookupWitness ==
    /\ Searched
    /\ Len(tokenize(last.query)) = 1
    /\ tokenize(last.query)[1] \in DOMAIN index
    /\ Len(last.results) >= 2

ErrorCase == Len(args) < 3 \/ file.kind # "docs"

\* C8: when an argument is missing, the corpus file cannot be opened or the
\* corpus fails to parse, the program ends with a diagnostic and a non-zero
\* status, no search is executed and nothing is printed; search runs only on
\* the index that a successful build returned.
ErrorsAbortRun ==
    /\ ErrorCase => /\ ~Searched
                    /\ out = <<>>
                    /\ exitCode # 0
                    /\ pc \in {"main", "run", "exit"}
                    /\ pc = "exit" => (exitCode > 0 /\ Len(err) = 1)
    /\ Searched => /\ file.kind = "docs"
                   /\ index = BuildLoop(EmptyIndex, file.docs, 1)

ErrorsAbortRunWitness ==
    /\ pc = "exit"
    /\ Len(args) >= 3
    /\ file.kind = "malformed"
    /\ exitCode = 1
    /\ err # <<>>

\* C9: intersect_ordered_vecs(a, b) returns exactly the ids that occur in both
\* a and b, in ascending order.
IntersectIsCommon ==
    last.op = "intersect" => last.xy = Common(xs[1], xs[2])

IsPermutation(s, t) ==
    /\ Len(s) = Len(t)
    /\ \A x \in Range(s) \cup Range(t) :
          Cardinality({ n \in 1..Len(s) : s[n] = x })
              = Cardinality({ n \in 1..Len(t) : t[n] = x })

\* C10: on an index built in ascending id order, two queries whose term
\* sequences are permutations of each other have the same result.
TermOrderIrrelevant ==
    (pc \in {"print", "exit"} /\ Searched)
        => \A q \in QuerySet :
              IsPermutation(tokenize(q), tokenize(last.query))
                  => search(index, q) = last.results

====
